---- MODULE Spec2Model ----
(***************************************************************************)
(* OpenVC.py: the wake-word session loop of the OpenVc voice chat script,  *)
(* with process_voice_input, query_llm and text_to_speech at the           *)
(* granularity of their statements.  A text is a sequence of one-character *)
(* strings; a literal of the script that is only ever passed along whole   *)
(* is written as a sequence of longer chunks.  "U+2018" and "U+2019" stand *)
(* for the two typographic quotation marks of the script's literals.       *)
(***************************************************************************)
EXTENDS Naturals, Sequences, FiniteSets, TLC

VARIABLES
    pc,                     \* the statement the interpreter is at
    exc,                    \* the uncaught exception that ended the process
    recognized_user_name,   \* module variable, line 172
    listening_enabled,      \* module variable, line 182
    raw,                    \* module variable, line 186
    reply,                  \* module variable, line 203
    audio,                  \* process_voice_input's local: an utterance was recorded
    r,                      \* the current function's local HTTP response
    text,                   \* process_voice_input's local / text_to_speech's argument
    site,                   \* the call site text_to_speech returns to
    prompt_wav,             \* the file prompt.wav exists
    speech_wav,             \* the file speech.wav exists
    active,                 \* the external operations in progress
    calls,                  \* this iteration's query_llm / text_to_speech calls, in order
    stt_requests,           \* this iteration's STT requests
    start_state,            \* listening_enabled when this iteration began
    iter_done,              \* the iteration has run to its end
    played                  \* this iteration's playback has run to its end

vars == <<pc, exc, recognized_user_name, listening_enabled, raw, reply, audio, r,
          text, site, prompt_wav, speech_wav, active, calls, stt_requests,
          start_state, iter_done, played>>

----------------------------------------------------------------------------
(* Bounds *)

\* The longest run of non-word characters put before and after a spoken word.
MaxPad == 1

----------------------------------------------------------------------------
(* Characters and Python's str / re primitives *)

UpperCase == <<"A","B","C","D","E","F","G","H","I","J","K","L","M",
               "N","O","P","Q","R","S","T","U","V","W","X","Y","Z">>
LowerCase == <<"a","b","c","d","e","f","g","h","i","j","k","l","m",
               "n","o","p","q","r","s","t","u","v","w","x","y","z">>
Digits == {"0","1","2","3","4","5","6","7","8","9"}

Range(s) == {s[i] : i \in DOMAIN s}

\* str.isspace for one character.
IsSpace(c) == c \in {" ", "\t", "\n", "\r", "\f"}

\* The characters re's \w matches: alphanumeric or underscore.
WordChars == Range(UpperCase) \cup Range(LowerCase) \cup Digits \cup {"_"}

\* re's \w for one character.
IsWord(c) == c \in WordChars

\* The lower-case letter of each upper-case letter.
LowerOf ==
    [c \in Range(UpperCase) |-> LowerCase[CHOOSE i \in DOMAIN UpperCase : UpperCase[i] = c]]

\* The case folding re.IGNORECASE applies to one character.
Lower(c) == IF c \in DOMAIN LowerOf THEN LowerOf[c] ELSE c

\* str.strip(): the text without its leading and trailing whitespace.
Strip(s) ==
    LET keep == {i \in DOMAIN s : ~IsSpace(s[i])}
    IN  IF keep = {} THEN <<>>
        ELSE LET lo == CHOOSE i \in keep : \A j \in keep : i <= j
                 hi == CHOOSE i \in keep : \A j \in keep : j <= i
             IN  SubSeq(s, lo, hi)

\* PatternMatch without the pattern's $: anything may follow the word.
PatternMatch_NoEndAnchor(word, s) ==
    \E i \in 0..Len(s) :
        /\ i + Len(word) <= Len(s)
        /\ \A k \in 1..i : ~IsWord(s[k])
        /\ \A k \in 1..Len(word) : Lower(s[i + k]) = word[k]
        /\ TRUE

\* re.compile(r'^\W*<word>\W*$', re.IGNORECASE).match(s), as a truth value:
\* some split of s into a run of \W, the word in any case, and a run of \W.
PatternMatch(word, s) ==
    \E i \in 0..Len(s) :
        /\ i + Len(word) <= Len(s)
        /\ \A k \in 1..i : ~IsWord(s[k])
        /\ \A k \in 1..Len(word) : Lower(s[i + k]) = word[k]
        /\ \A k \in (i + Len(word) + 1)..Len(s) : ~IsWord(s[k])

stop_pattern(s) == PatternMatch(<<"s","t","o","p">>, s)
start_pattern(s) == PatternMatch(<<"s","t","a","r","t">>, s)

----------------------------------------------------------------------------
(* Literals of the script *)

sys_msg ==
    << "You are OpenVc, an open-source, cloud-powered voice chat system template. ",
       "You receive spoken prompts via STT (Whisper) and reply via TTS (PlayAI). ",
       "Keep messages short and simple for voice chat." >>

StopAck == <<"Voice chat stopped. Say ", "U+2018", "start", "U+2019", " to resume.">>
StartAck == <<"Voice chat resumed.">>

----------------------------------------------------------------------------
(* The environment: what is typed, said and answered *)

\* What the user may type at the name prompt of line 172.
NameInputs == { <<>>, <<" ">>, <<"A","l">>, <<" ","A","l"," ">> }

\* The words an utterance may consist of.
Spoken ==
    { <<>>,
      <<"s","t","o","p">>,
      <<"S","t","o","p">>,
      <<"S","t","a","r","t">>,
      <<"h","i">>,
      <<"s","t","o","p","_">>,
      <<"p","l","e","a","s","e"," ","s","t","o","p"," ","n","o","w">> }

\* The non-word characters the STT service may put around them.
PadChars == {" ", "."}

RECURSIVE Pads(_)
Pads(n) ==
    IF n = 0 THEN { <<>> }
    ELSE Pads(n - 1) \cup { <<c>> \o p : c \in PadChars, p \in {q \in Pads(n - 1) : Len(q) = n - 1} }

\* The bodies the STT endpoint may answer with.
SttBodies == { a \o w \o b : a \in Pads(MaxPad), w \in Spoken, b \in Pads(MaxPad) }

\* The message contents the chat endpoint may answer with.
ChatContents == { <<"O","k">>, <<" ","O","k","\n">>, <<" ">> }

\* The HTTP statuses an endpoint may answer with.
Statuses == {200, 201, 300, 404}

\* No response held.
NoResponse == [status |-> 0, text |-> <<>>, json |-> FALSE]

\* requests.Response.raise_for_status raises HTTPError for 4xx and 5xx only.
raise_for_status(resp) == resp.status >= 400 /\ resp.status < 600

\* prompt_sys without the test of line 144: the sentence is always appended.
prompt_sys_AlwaysNamed ==
    sys_msg \o <<" The user's name is ">> \o recognized_user_name \o <<".">>

\* The system message query_llm sends.
prompt_sys ==
    IF recognized_user_name # <<>>
    THEN sys_msg \o <<" The user's name is ">> \o recognized_user_name \o <<".">>
    ELSE sys_msg

Call(op, arg, sys, from) == [op |-> op, arg |-> arg, sys |-> sys, site |-> from]

----------------------------------------------------------------------------
(* Initial state: line 182 has run, the loop of line 185 is about to start *)

Init ==
    /\ pc = "while"
    /\ exc = "none"
    /\ recognized_user_name \in { Strip(n) : n \in NameInputs }
    /\ listening_enabled = TRUE
    /\ raw = <<>>
    /\ reply = <<>>
    /\ audio = FALSE
    /\ r = NoResponse
    /\ text = <<>>
    /\ site = "none"
    /\ prompt_wav = FALSE
    /\ speech_wav = FALSE
    /\ active = {}
    /\ calls = <<>>
    /\ stt_requests = 0
    /\ start_state = TRUE
    /\ iter_done = FALSE
    /\ played = FALSE

globals == <<recognized_user_name, listening_enabled, raw, reply>>
files == <<prompt_wav, speech_wav>>
iteration == <<calls, stt_requests, start_state, iter_done, played>>

\* An exception nothing catches: the traceback is printed and the process ends.
Uncaught(e) ==
    /\ pc' = "crashed"
    /\ exc' = e

\* The end of the loop body, or a continue: back to line 185.
NextIteration ==
    /\ pc' = "while"
    /\ iter_done' = TRUE

----------------------------------------------------------------------------
(* process_voice_input, lines 53-100 *)

\* Line 186 calls process_voice_input; lines 61-65 set up the recognizer.
CallProcessVoiceInput ==
    /\ pc = "while"
    /\ pc' = "pvi_microphone"
    /\ calls' = <<>>
    /\ stt_requests' = 0
    /\ start_state' = listening_enabled
    /\ iter_done' = FALSE
    /\ played' = FALSE
    /\ UNCHANGED <<exc, globals, audio, r, text, site, files, active>>

\* Line 67: the with statement opens the microphone, outside any try.
OpenMicrophone ==
    /\ pc = "pvi_microphone"
    /\ \/ /\ pc' = "pvi_adjust"
          /\ active' = active \cup {"capture"}
          /\ UNCHANGED exc
       \/ /\ Uncaught("microphone")
          /\ UNCHANGED active
    /\ UNCHANGED <<globals, audio, r, text, site, files, iteration>>

\* Lines 68-69: the ambient noise calibration, inside the with, outside the try.
AdjustForAmbientNoise ==
    /\ pc = "pvi_adjust"
    /\ \/ /\ pc' = "pvi_listen"
          /\ UNCHANGED <<exc, active>>
       \/ /\ Uncaught("calibration")
          /\ active' = active \ {"capture"}
    /\ UNCHANGED <<globals, audio, r, text, site, files, iteration>>

\* Lines 70-74: listen; any exception is logged and "" is returned to line 186.
Listen ==
    /\ pc = "pvi_listen"
    /\ active' = active \ {"capture"}
    /\ \/ /\ audio' = TRUE
          /\ pc' = "pvi_write"
          /\ UNCHANGED raw
       \/ /\ raw' = <<>>
          /\ pc' = "if_not_raw"
          /\ UNCHANGED audio
    /\ UNCHANGED <<exc, recognized_user_name, listening_enabled, reply, r, text,
                   site, files, iteration>>

\* Lines 77-79: the recording is written to prompt.wav.
WritePrompt ==
    /\ pc = "pvi_write"
    /\ prompt_wav' = TRUE
    /\ pc' = "pvi_post"
    /\ UNCHANGED <<exc, globals, audio, r, text, site, speech_wav, active, iteration>>

\* Lines 82-91: the request to the transcription endpoint is sent.
SttPost ==
    /\ pc = "pvi_post"
    /\ active' = active \cup {"stt"}
    /\ stt_requests' = stt_requests + 1
    /\ pc' = "pvi_post_wait"
    /\ UNCHANGED <<exc, globals, audio, r, text, site, files, calls, start_state, played,
                   iter_done>>

\* Lines 83-91 return a response, or raise into the except of lines 95-97.
SttResponse ==
    /\ pc = "pvi_post_wait"
    /\ active' = active \ {"stt"}
    /\ \/ \E st \in Statuses, body \in SttBodies :
            /\ r' = [status |-> st, text |-> body, json |-> FALSE]
            /\ pc' = "pvi_raise"
            /\ UNCHANGED text
       \/ /\ text' = <<>>
          /\ pc' = "pvi_finally"
          /\ UNCHANGED r
    /\ UNCHANGED <<exc, globals, audio, site, files, iteration>>

\* SttRaiseForStatus without line 92: the body is returned whatever the status.
SttRaiseForStatus_Skipped ==
    /\ pc = "pvi_raise"
    /\ text' = Strip(r.text)
    /\ pc' = "pvi_finally"
    /\ UNCHANGED <<exc, globals, audio, r, site, files, active, iteration>>

\* Lines 92-97: raise_for_status, then the stripped body, or "" in the except.
SttRaiseForStatus ==
    /\ pc = "pvi_raise"
    /\ text' = IF raise_for_status(r) THEN <<>> ELSE Strip(r.text)
    /\ pc' = "pvi_finally"
    /\ UNCHANGED <<exc, globals, audio, r, site, files, active, iteration>>

\* SttFinally with os.remove at the end of the try body, not in a finally: the
\* file is removed only when a transcript was produced.
SttFinally_RemoveOnSuccess ==
    /\ pc = "pvi_finally"
    /\ prompt_wav' = (prompt_wav /\ text = <<>>)
    /\ raw' = text
    /\ audio' = FALSE
    /\ r' = NoResponse
    /\ text' = <<>>
    /\ pc' = "if_not_raw"
    /\ UNCHANGED <<exc, recognized_user_name, listening_enabled, reply, site,
                   speech_wav, active, iteration>>

\* Lines 98-100: prompt.wav is removed and text is returned to line 186.
SttFinally ==
    /\ pc = "pvi_finally"
    /\ prompt_wav' = FALSE
    /\ raw' = text
    /\ audio' = FALSE
    /\ r' = NoResponse
    /\ text' = <<>>
    /\ pc' = "if_not_raw"
    /\ UNCHANGED <<exc, recognized_user_name, listening_enabled, reply, site,
                   speech_wav, active, iteration>>

----------------------------------------------------------------------------
(* The loop body, lines 187-205 *)

\* IfNotRaw without the test of line 187: an empty transcript is handled like
\* any other.
IfNotRaw_NoSkip ==
    /\ pc = "if_not_raw"
    /\ pc' = "if_stop"
    /\ UNCHANGED iter_done
    /\ UNCHANGED <<exc, globals, audio, r, text, site, files, active, calls,
                   stt_requests, start_state, played>>

\* IfNotRaw with a break at line 188: an empty transcript leaves the loop and
\* the script ends.
IfNotRaw_Break ==
    /\ pc = "if_not_raw"
    /\ IF raw = <<>>
       THEN pc' = "done" /\ iter_done' = TRUE
       ELSE pc' = "if_stop" /\ UNCHANGED iter_done
    /\ UNCHANGED <<exc, globals, audio, r, text, site, files, active, calls,
                   stt_requests, start_state, played>>

\* Lines 187-188: an empty transcript skips the iteration.
IfNotRaw ==
    /\ pc = "if_not_raw"
    /\ IF raw = <<>>
       THEN NextIteration
       ELSE pc' = "if_stop" /\ UNCHANGED iter_done
    /\ UNCHANGED <<exc, globals, audio, r, text, site, files, active, calls,
                   stt_requests, start_state, played>>

\* IfStop with line 191 testing the pattern alone, whatever listening_enabled is.
IfStop_NoStateGuard ==
    /\ pc = "if_stop"
    /\ IF stop_pattern(raw)
       THEN /\ text' = StopAck
            /\ site' = "stop"
            /\ calls' = Append(calls, Call("speak", StopAck, <<>>, "stop"))
            /\ pc' = "tts_post"
       ELSE /\ pc' = "if_start"
            /\ UNCHANGED <<text, site, calls>>
    /\ UNCHANGED <<exc, globals, audio, r, files, active, stt_requests,
                   start_state, played, iter_done>>

\* IfStop with lines 192 and 193 swapped: the flag is cleared before
\* text_to_speech is called.
IfStop_FlipsBeforeSpeaking ==
    /\ pc = "if_stop"
    /\ IF listening_enabled /\ stop_pattern(raw)
       THEN /\ text' = StopAck
            /\ site' = "stop"
            /\ calls' = Append(calls, Call("speak", StopAck, <<>>, "stop"))
            /\ pc' = "tts_post"
       ELSE /\ pc' = "if_start"
            /\ UNCHANGED <<text, site, calls>>
    /\ listening_enabled' = (listening_enabled /\ ~stop_pattern(raw))
    /\ UNCHANGED <<exc, recognized_user_name, raw, reply, audio, r, files, active, stt_requests,
                   start_state, played, iter_done>>

\* Lines 191-192: "stop" while listening calls text_to_speech with the
\* acknowledgement.
IfStop ==
    /\ pc = "if_stop"
    /\ IF listening_enabled /\ stop_pattern(raw)
       THEN /\ text' = StopAck
            /\ site' = "stop"
            /\ calls' = Append(calls, Call("speak", StopAck, <<>>, "stop"))
            /\ pc' = "tts_post"
       ELSE /\ pc' = "if_start"
            /\ UNCHANGED <<text, site, calls>>
    /\ UNCHANGED <<exc, globals, audio, r, files, active, stt_requests,
                   start_state, played, iter_done>>

\* IfStart with line 196 testing the pattern alone, whatever listening_enabled is.
IfStart_NoStateGuard ==
    /\ pc = "if_start"
    /\ IF start_pattern(raw)
       THEN /\ text' = StartAck
            /\ site' = "start"
            /\ calls' = Append(calls, Call("speak", StartAck, <<>>, "start"))
            /\ pc' = "tts_post"
       ELSE /\ pc' = "if_listening"
            /\ UNCHANGED <<text, site, calls>>
    /\ UNCHANGED <<exc, globals, audio, r, files, active, stt_requests,
                   start_state, played, iter_done>>

\* IfStart with line 196 testing listening_enabled alone, whatever was said.
IfStart_AnyTranscript ==
    /\ pc = "if_start"
    /\ IF ~listening_enabled
       THEN /\ text' = StartAck
            /\ site' = "start"
            /\ calls' = Append(calls, Call("speak", StartAck, <<>>, "start"))
            /\ pc' = "tts_post"
       ELSE /\ pc' = "if_listening"
            /\ UNCHANGED <<text, site, calls>>
    /\ UNCHANGED <<exc, globals, audio, r, files, active, stt_requests,
                   start_state, played, iter_done>>

\* Lines 196-197: "start" while paused calls text_to_speech with the
\* acknowledgement.
IfStart ==
    /\ pc = "if_start"
    /\ IF ~listening_enabled /\ start_pattern(raw)
       THEN /\ text' = StartAck
            /\ site' = "start"
            /\ calls' = Append(calls, Call("speak", StartAck, <<>>, "start"))
            /\ pc' = "tts_post"
       ELSE /\ pc' = "if_listening"
            /\ UNCHANGED <<text, site, calls>>
    /\ UNCHANGED <<exc, globals, audio, r, files, active, stt_requests,
                   start_state, played, iter_done>>

\* IfListening without the test of line 202: query_llm is called when paused too.
IfListening_NoGuard ==
    /\ pc = "if_listening"
    /\ calls' = Append(calls, Call("chat", raw, prompt_sys, "chat"))
    /\ pc' = "llm_post"
    /\ UNCHANGED iter_done
    /\ UNCHANGED <<exc, globals, audio, r, text, site, files, active,
                   stt_requests, start_state, played>>

\* Lines 202-203 and 143-155: while listening the utterance goes to query_llm,
\* which builds its payload; while paused the iteration ends (line 205).
IfListening ==
    /\ pc = "if_listening"
    /\ IF listening_enabled
       THEN /\ calls' = Append(calls, Call("chat", raw, prompt_sys, "chat"))
            /\ pc' = "llm_post"
            /\ UNCHANGED iter_done
       ELSE /\ NextIteration
            /\ UNCHANGED calls
    /\ UNCHANGED <<exc, globals, audio, r, text, site, files, active,
                   stt_requests, start_state, played>>

\* StopAcknowledged with line 193 assigning True.
StopAcknowledged_SetsTrue ==
    /\ pc = "tts_return"
    /\ site = "stop"
    /\ listening_enabled' = TRUE
    /\ site' = "none"
    /\ NextIteration
    /\ UNCHANGED <<exc, recognized_user_name, raw, reply, audio, r, text, files,
                   active, calls, stt_requests, start_state, played>>

\* Line 193-194: text_to_speech has returned to the stop branch.
StopAcknowledged ==
    /\ pc = "tts_return"
    /\ site = "stop"
    /\ listening_enabled' = FALSE
    /\ site' = "none"
    /\ NextIteration
    /\ UNCHANGED <<exc, recognized_user_name, raw, reply, audio, r, text, files,
                   active, calls, stt_requests, start_state, played>>

\* StartAcknowledged with line 198 assigning False.
StartAcknowledged_SetsFalse ==
    /\ pc = "tts_return"
    /\ site = "start"
    /\ listening_enabled' = FALSE
    /\ site' = "none"
    /\ NextIteration
    /\ UNCHANGED <<exc, recognized_user_name, raw, reply, audio, r, text, files,
                   active, calls, stt_requests, start_state, played>>

\* Lines 198-199: text_to_speech has returned to the start branch.
StartAcknowledged ==
    /\ pc = "tts_return"
    /\ site = "start"
    /\ listening_enabled' = TRUE
    /\ site' = "none"
    /\ NextIteration
    /\ UNCHANGED <<exc, recognized_user_name, raw, reply, audio, r, text, files,
                   active, calls, stt_requests, start_state, played>>

\* Lines 204-205: text_to_speech has returned to the chat branch.
ReplySpoken ==
    /\ pc = "tts_return"
    /\ site = "reply"
    /\ site' = "none"
    /\ NextIteration
    /\ UNCHANGED <<exc, globals, audio, r, text, files, active, calls,
                   stt_requests, start_state, played>>

----------------------------------------------------------------------------
(* query_llm, lines 137-163 *)

\* Lines 156-159: the request to the chat endpoint is sent.
LlmPost ==
    /\ pc = "llm_post"
    /\ active' = active \cup {"chat"}
    /\ pc' = "llm_post_wait"
    /\ UNCHANGED <<exc, globals, audio, r, text, site, files, iteration>>

\* Lines 156-159 return a response, or raise; nothing catches the exception.
LlmResponse ==
    /\ pc = "llm_post_wait"
    /\ active' = active \ {"chat"}
    /\ \/ \E st \in Statuses, content \in ChatContents, parses \in BOOLEAN :
            /\ r' = [status |-> st, text |-> content, json |-> parses]
            /\ pc' = "llm_raise"
            /\ UNCHANGED exc
       \/ /\ Uncaught("chat_transport")
          /\ UNCHANGED r
    /\ UNCHANGED <<globals, audio, text, site, files, iteration>>

\* LlmRaiseForStatus without line 160: an error status is not raised.
LlmRaiseForStatus_Skipped ==
    /\ pc = "llm_raise"
    /\ pc' = "llm_json"
    /\ UNCHANGED exc
    /\ UNCHANGED <<globals, audio, r, text, site, files, active, iteration>>

\* Line 160: raise_for_status; nothing catches the HTTPError.
LlmRaiseForStatus ==
    /\ pc = "llm_raise"
    /\ IF raise_for_status(r)
       THEN Uncaught("chat_status")
       ELSE pc' = "llm_json" /\ UNCHANGED exc
    /\ UNCHANGED <<globals, audio, r, text, site, files, active, iteration>>

\* LlmReply with line 204 passing raw, not reply, to text_to_speech.
LlmReply_SpeaksPrompt ==
    /\ pc = "llm_json"
    /\ IF r.json
       THEN /\ reply' = Strip(r.text)
            /\ text' = raw
            /\ site' = "reply"
            /\ calls' = Append(calls, Call("speak", raw, <<>>, "reply"))
            /\ r' = NoResponse
            /\ pc' = "tts_post"
            /\ UNCHANGED exc
       ELSE /\ Uncaught("chat_body")
            /\ UNCHANGED <<reply, text, site, calls, r>>
    /\ UNCHANGED <<recognized_user_name, listening_enabled, raw, audio, files,
                   active, stt_requests, start_state, played, iter_done>>

\* Lines 161-163 and 203-204: the first choice's content, stripped, is returned
\* as reply, and line 204 calls text_to_speech with it; a body that is not the
\* expected JSON raises, and nothing catches it.
LlmReply ==
    /\ pc = "llm_json"
    /\ IF r.json
       THEN /\ reply' = Strip(r.text)
            /\ text' = Strip(r.text)
            /\ site' = "reply"
            /\ calls' = Append(calls, Call("speak", Strip(r.text), <<>>, "reply"))
            /\ r' = NoResponse
            /\ pc' = "tts_post"
            /\ UNCHANGED exc
       ELSE /\ Uncaught("chat_body")
            /\ UNCHANGED <<reply, text, site, calls, r>>
    /\ UNCHANGED <<recognized_user_name, listening_enabled, raw, audio, files,
                   active, stt_requests, start_state, played, iter_done>>

----------------------------------------------------------------------------
(* text_to_speech, lines 107-130 *)

\* Lines 111-123: the request to the speech endpoint is sent.
TtsPost ==
    /\ pc = "tts_post"
    /\ active' = active \cup {"tts"}
    /\ pc' = "tts_post_wait"
    /\ UNCHANGED <<exc, globals, audio, r, text, site, files, iteration>>

\* Line 123 returns a response, or raises; nothing catches the exception.
TtsResponse ==
    /\ pc = "tts_post_wait"
    /\ active' = active \ {"tts"}
    /\ \/ \E st \in Statuses :
            /\ r' = [status |-> st, text |-> <<>>, json |-> FALSE]
            /\ pc' = "tts_status"
            /\ UNCHANGED exc
       \/ /\ Uncaught("tts_transport")
          /\ UNCHANGED r
    /\ UNCHANGED <<globals, audio, text, site, files, iteration>>

\* TtsStatus with line 124 testing for any 2xx status (r.ok), not for 200.
TtsStatus_AnySuccess ==
    /\ pc = "tts_status"
    /\ IF r.status \in 200..299
       THEN /\ speech_wav' = TRUE
            /\ pc' = "tts_play"
            /\ UNCHANGED <<r, text>>
       ELSE /\ pc' = "tts_return"
            /\ r' = NoResponse
            /\ text' = <<>>
            /\ UNCHANGED speech_wav
    /\ UNCHANGED <<exc, globals, audio, site, prompt_wav, active, iteration>>

\* Lines 124-126 and 129-130: on 200 the audio is written to speech.wav, on
\* any other status the error is logged and the function returns.
TtsStatus ==
    /\ pc = "tts_status"
    /\ IF r.status = 200
       THEN /\ speech_wav' = TRUE
            /\ pc' = "tts_play"
            /\ UNCHANGED <<r, text>>
       ELSE /\ pc' = "tts_return"
            /\ r' = NoResponse
            /\ text' = <<>>
            /\ UNCHANGED speech_wav
    /\ UNCHANGED <<exc, globals, audio, site, prompt_wav, active, iteration>>

\* TtsPlay with a play that returns at once and plays in the background.
TtsPlay_NonBlocking ==
    /\ pc = "tts_play"
    /\ \/ /\ active' = active \cup {"playback"}
          /\ pc' = "tts_unlink"
          /\ UNCHANGED exc
       \/ /\ Uncaught("decode")
          /\ UNCHANGED active
    /\ UNCHANGED <<globals, audio, r, text, site, files, iteration>>

\* Line 127: AudioSegment.from_wav decodes the file, or raises; play starts.
TtsPlay ==
    /\ pc = "tts_play"
    /\ \/ /\ active' = active \cup {"playback"}
          /\ pc' = "tts_play_wait"
          /\ UNCHANGED exc
       \/ /\ Uncaught("decode")
          /\ UNCHANGED active
    /\ UNCHANGED <<globals, audio, r, text, site, files, iteration>>

\* TtsPlayEnd with the unlink of line 128 in a finally: speech.wav is removed
\* when play raises too.
TtsPlayEnd_Finally ==
    /\ pc = "tts_play_wait"
    /\ active' = active \ {"playback"}
    /\ \/ /\ pc' = "tts_unlink"
          /\ played' = TRUE
          /\ UNCHANGED <<exc, speech_wav>>
       \/ /\ Uncaught("playback")
          /\ speech_wav' = FALSE
          /\ UNCHANGED played
    /\ UNCHANGED <<globals, audio, r, text, site, prompt_wav, calls, stt_requests,
                   start_state, iter_done>>

\* Line 127: play returns when the audio has been played, or raises.
TtsPlayEnd ==
    /\ pc = "tts_play_wait"
    /\ active' = active \ {"playback"}
    /\ \/ /\ pc' = "tts_unlink"
          /\ played' = TRUE
          /\ UNCHANGED exc
       \/ /\ Uncaught("playback")
          /\ UNCHANGED played
    /\ UNCHANGED <<globals, audio, r, text, site, files, calls, stt_requests,
                   start_state, iter_done>>

\* Line 128: speech.wav is removed and the function returns.
TtsUnlink ==
    /\ pc = "tts_unlink"
    /\ speech_wav' = FALSE
    /\ r' = NoResponse
    /\ text' = <<>>
    /\ pc' = "tts_return"
    /\ UNCHANGED <<exc, globals, audio, site, prompt_wav, active, iteration>>

----------------------------------------------------------------------------
(* The specification *)

Next ==
    \/ CallProcessVoiceInput
    \/ OpenMicrophone
    \/ AdjustForAmbientNoise
    \/ Listen
    \/ WritePrompt
    \/ SttPost
    \/ SttResponse
    \/ SttRaiseForStatus
    \/ SttFinally
    \/ IfNotRaw
    \/ IfStop
    \/ IfStart
    \/ IfListening
    \/ StopAcknowledged
    \/ StartAcknowledged
    \/ ReplySpoken
    \/ LlmPost
    \/ LlmResponse
    \/ LlmRaiseForStatus
    \/ LlmReply
    \/ TtsPost
    \/ TtsResponse
    \/ TtsStatus
    \/ TtsPlay
    \/ TtsPlayEnd
    \/ TtsUnlink

Spec == Init /\ [][Next]_vars

TypeOK ==
    /\ pc \in {"while", "pvi_microphone", "pvi_adjust", "pvi_listen", "pvi_write",
               "pvi_post", "pvi_post_wait", "pvi_raise", "pvi_finally",
               "if_not_raw", "if_stop", "if_start", "if_listening",
               "llm_post", "llm_post_wait", "llm_raise", "llm_json",
               "tts_post", "tts_post_wait", "tts_status", "tts_play",
               "tts_play_wait", "tts_unlink", "tts_return", "crashed"}
    /\ listening_enabled \in BOOLEAN
    /\ active \subseteq {"capture", "stt", "chat", "tts", "playback"}
    /\ (pc = "crashed") = (exc # "none")

----------------------------------------------------------------------------
(* Vocabulary of the properties *)

\* The iteration has run to its end and the next one has not begun.
IterationComplete == pc = "while" /\ iter_done

\* raw is the transcript of the iteration in progress or just completed: the
\* control is in the loop body, or ended there.
InBody ==
    \/ pc \in {"if_not_raw", "if_stop", "if_start", "if_listening",
               "llm_post", "llm_post_wait", "llm_raise", "llm_json",
               "tts_post", "tts_post_wait", "tts_status", "tts_play",
               "tts_play_wait", "tts_unlink", "tts_return"}
    \/ IterationComplete
    \/ pc = "crashed" /\ exc \notin {"microphone", "calibration"}

IsSpeak(c) == c.op = "speak"
IsChat(c) == c.op = "chat"
SpeakCalls == SelectSeq(calls, IsSpeak)
ChatCalls == SelectSeq(calls, IsChat)

StopAckCall == Call("speak", StopAck, <<>>, "stop")
StartAckCall == Call("speak", StartAck, <<>>, "start")

\* C1: listening_enabled is true initially, and every step that changes it
\* either turns it off in an iteration that began listening and whose
\* transcript matches the stop pattern, or turns it on in an iteration that
\* began paused and whose transcript matches the start pattern.
C1_FlipOnlyByWakeWord ==
    /\ listening_enabled = TRUE
    /\ [][ listening_enabled' # listening_enabled =>
             /\ InBody
             /\ raw' = raw
             /\ \/ /\ listening_enabled /\ ~listening_enabled'
                   /\ start_state /\ stop_pattern(raw)
                \/ /\ ~listening_enabled /\ listening_enabled'
                   /\ ~start_state /\ start_pattern(raw) ]_vars

\* C1's case: an iteration that began paused has just resumed listening, so
\* both kinds of change have happened.
C1_Witness == IterationComplete /\ ~start_state /\ listening_enabled

\* C2: an iteration that began listening and whose transcript matches the stop
\* pattern never calls query_llm, calls text_to_speech at most once and only
\* with the stop acknowledgement of line 192, and when it has run to its end
\* it has made exactly that one call and listening_enabled is false.
C2_StopPauses ==
    (InBody /\ start_state /\ stop_pattern(raw)) =>
        /\ ChatCalls = <<>>
        /\ calls \in { <<>>, <<StopAckCall>> }
        /\ IterationComplete => calls = <<StopAckCall>> /\ ~listening_enabled

C2_Witness == IterationComplete /\ start_state /\ stop_pattern(raw)

\* C3: an iteration that began paused and whose transcript matches the start
\* pattern never calls query_llm, calls text_to_speech at most once and only
\* with the acknowledgement of line 197, and when it has run to its end it has
\* made exactly that one call and listening_enabled is true.
C3_StartResumes ==
    (InBody /\ ~start_state /\ start_pattern(raw)) =>
        /\ ChatCalls = <<>>
        /\ calls \in { <<>>, <<StartAckCall>> }
        /\ IterationComplete => calls = <<StartAckCall>> /\ listening_enabled

C3_Witness == IterationComplete /\ ~start_state /\ start_pattern(raw)

\* C4: an iteration that began paused and whose transcript does not match the
\* start pattern (a stop match included) calls neither query_llm nor
\* text_to_speech and leaves listening_enabled false.
C4_PausedIgnores ==
    (InBody /\ ~start_state /\ ~start_pattern(raw)) =>
        /\ calls = <<>>
        /\ ~listening_enabled

\* C4's case: a "stop" heard while paused has been ignored.
C4_Witness == IterationComplete /\ ~start_state /\ stop_pattern(raw)

\* C5: an iteration whose transcript is empty calls neither query_llm nor
\* text_to_speech and leaves listening_enabled as it was.
C5_EmptyTranscriptNoOp ==
    (InBody /\ raw = <<>>) =>
        /\ calls = <<>>
        /\ listening_enabled = start_state

\* C5's case: an STT request was made and the transcript came out empty, while
\* listening.
C5_Witness == IterationComplete /\ raw = <<>> /\ stt_requests = 1 /\ start_state

\* C6: an iteration that began listening and whose transcript is non-empty and
\* matches neither pattern calls query_llm first and once, with the transcript
\* as prompt, then text_to_speech at most once, with the reply query_llm
\* returned; when it has run to its end both calls were made, in that order,
\* and listening_enabled is still true.
C6_ChatTurn ==
    (InBody /\ start_state /\ raw # <<>> /\ ~stop_pattern(raw) /\ ~start_pattern(raw)) =>
        /\ listening_enabled
        /\ Len(calls) <= 2
        /\ Len(calls) >= 1 => calls[1].op = "chat" /\ calls[1].arg = raw
        /\ Len(calls) = 2 => calls[2] = Call("speak", reply, <<>>, "reply")
        /\ pc \in {"llm_post", "llm_post_wait", "llm_raise", "llm_json"} => Len(calls) = 1
        /\ IterationComplete => Len(calls) = 2

C6_Witness ==
    /\ IterationComplete /\ start_state /\ raw # <<>>
    /\ ~stop_pattern(raw) /\ ~start_pattern(raw)
    /\ Len(calls) = 2

\* C7 as stated: whenever query_llm has been called in an iteration, the
\* iteration is a listening one and its transcript is non-empty and matches
\* neither the stop nor the start pattern.
C7_Original ==
    ChatCalls # <<>> =>
        /\ InBody /\ start_state /\ listening_enabled
        /\ raw # <<>> /\ ~stop_pattern(raw) /\ ~start_pattern(raw)

\* C7 as amended: whenever query_llm has been called in an iteration, the
\* iteration is a listening one and its transcript is non-empty and does not
\* match the stop pattern; a start match heard while listening is sent to
\* query_llm like any other utterance.
C7_ChatOnlyWhileListening ==
    ChatCalls # <<>> =>
        /\ InBody /\ start_state /\ listening_enabled
        /\ raw # <<>> /\ ~stop_pattern(raw)
        /\ Len(ChatCalls) = 1 /\ ChatCalls[1].arg = raw

\* C7's case: query_llm has been called, here with a start match.
C7_Witness == ChatCalls # <<>> /\ start_pattern(raw)

\* C8: an iteration that began listening and whose transcript matches the
\* start pattern leaves listening_enabled true and never makes the call of
\* line 197.
C8_StartWhileListening ==
    (InBody /\ start_state /\ start_pattern(raw)) =>
        /\ listening_enabled
        /\ \A i \in DOMAIN calls : calls[i].site # "start" /\ calls[i].arg # StartAck

C8_Witness == IterationComplete /\ start_state /\ start_pattern(raw)

\* C9: at no point are two external operations (capture, STT request, chat
\* request, TTS request, playback) in progress, and from the moment a capture
\* is about to begin until it ends nothing of an earlier utterance is pending:
\* no request or playback in progress, no response held, no call of
\* text_to_speech to return from, no prompt.wav waiting for upload.
C9_Sequential ==
    /\ Cardinality(active) <= 1
    /\ "capture" \in active => pc \in {"pvi_adjust", "pvi_listen"}
    /\ pc \in {"while", "pvi_microphone", "pvi_adjust", "pvi_listen"} =>
          /\ active \subseteq {"capture"}
          /\ site = "none"
          /\ r = NoResponse
          /\ ~prompt_wav

\* C9's case: a capture is in progress after an earlier chat turn.
C9_Witness == pc = "pvi_listen" /\ active = {"capture"} /\ reply # <<>>

\* C10 as stated: query_llm never returns from a chat response whose status is
\* outside 2xx, so no call of text_to_speech follows it.
C10_Original ==
    [][ (pc \in {"llm_raise", "llm_json"} /\ r.status \notin 200..299) =>
            /\ pc' \in {"llm_json", "crashed"}
            /\ calls' = calls ]_vars

\* C10 as amended: a chat response with a 4xx or 5xx status ends the process at
\* line 160, and once a chat transport failure or error status has been raised
\* the process has ended: text_to_speech was not called in that iteration,
\* nothing is in progress and no further step is taken.
C10_ChatFailureFatal ==
    /\ [][ (pc = "llm_raise" /\ raise_for_status(r)) =>
             /\ pc' = "crashed"
             /\ exc' = "chat_status"
             /\ calls' = calls ]_vars
    /\ [](exc \in {"chat_transport", "chat_status"} =>
             /\ pc = "crashed"
             /\ SpeakCalls = <<>>
             /\ Len(ChatCalls) = 1
             /\ active = {}
             /\ ~ENABLED Next)

\* C10's case: the chat endpoint answered 404 and the process has ended.
C10_Witness == pc = "crashed" /\ exc = "chat_status" /\ r.status = 404

\* C11 as stated: a transcription response whose status is outside 2xx makes
\* process_voice_input return the empty string.
C11_Original ==
    [][ (pc = "pvi_raise" /\ r.status \notin 200..299) => text' = <<>> ]_vars

\* C11 as amended: an STT response with a 4xx or 5xx status, and a transport
\* exception of the STT request, are caught: text becomes empty and nothing is
\* raised; that capture has had exactly one STT request; the empty text is
\* returned as raw, and the iteration ends at line 188 with listening_enabled
\* and the calls untouched, back at the loop head.
C11_SttFailureContained ==
    /\ [][ (pc = "pvi_raise" /\ raise_for_status(r)) =>
             /\ pc' = "pvi_finally" /\ text' = <<>> /\ exc' = "none" ]_vars
    /\ [][ (pc = "pvi_post_wait" /\ r' = NoResponse) =>
             /\ pc' = "pvi_finally" /\ text' = <<>> /\ exc' = "none" ]_vars
    /\ [](pc \in {"pvi_post_wait", "pvi_raise", "pvi_finally"} => stt_requests = 1)
    /\ [][ pc = "pvi_finally" =>
             /\ pc' = "if_not_raw" /\ raw' = text /\ exc' = "none"
             /\ stt_requests' = 1
             /\ listening_enabled' = listening_enabled ]_vars
    /\ [][ (pc = "if_not_raw" /\ raw = <<>>) =>
             /\ pc' = "while" /\ exc' = "none"
             /\ calls' = <<>>
             /\ listening_enabled' = listening_enabled ]_vars

\* C11's case: the STT endpoint answered 404, the error was caught and the
\* empty text is about to be returned.
C11_Witness ==
    pc = "pvi_finally" /\ r.status = 404 /\ text = <<>> /\ stt_requests = 1

\* C12: no capture failure raises to the caller: neither a failure to open the
\* microphone nor one of the calibration ends the process, and an iteration
\* whose capture failed has an empty transcript, no prompt.wav and no STT
\* request.
C12_CaptureFailureContained ==
    /\ exc \notin {"microphone", "calibration"}
    /\ (InBody /\ stt_requests = 0) => raw = <<>> /\ ~prompt_wav

\* C13: when the speech endpoint answers with a status other than 200,
\* text_to_speech returns without raising, with no speech.wav written and no
\* playback started; playback only ever runs on a 200 response; and from the
\* return of text_to_speech the iteration ends at the loop head, from where
\* the next capture is called.
C13_TtsErrorStatusContained ==
    /\ [][ (pc = "tts_status" /\ r.status # 200) =>
             /\ pc' = "tts_return" /\ exc' = "none"
             /\ ~speech_wav'
             /\ active' = {}
             /\ ~played' ]_vars
    /\ [](pc \in {"tts_play", "tts_play_wait", "tts_unlink"} => r.status = 200)
    /\ []((played \/ speech_wav \/ "playback" \in active) =>
             pc \in {"tts_play", "tts_play_wait", "tts_unlink", "tts_return",
                     "while", "crashed"})
    /\ [][ pc = "tts_return" => pc' = "while" /\ iter_done' /\ exc' = "none" ]_vars
    /\ [][ pc = "while" => pc' = "pvi_microphone" ]_vars

\* C13's case: an iteration spoke, nothing was played, and the loop is back at
\* its head.
C13_Witness == IterationComplete /\ SpeakCalls # <<>> /\ ~played /\ ~speech_wav

\* C14: whenever the process has ended on a failure of an external operation,
\* that failure is one of the chat call; no failure of capture, transcription,
\* synthesis or playback ends it.
C14_OnlyChatUncontained ==
    pc = "crashed" => exc \in {"chat_transport", "chat_status", "chat_body"}

\* C15: prompt.wav exists only between its creation at line 78 and the finally
\* of line 99: once process_voice_input has returned, whether the STT request
\* succeeded, answered an error status or raised, the file is gone, and it is
\* on disk whenever the STT request is in progress or its response is handled.
C15_PromptAlwaysRemoved ==
    /\ prompt_wav => pc \in {"pvi_post", "pvi_post_wait", "pvi_raise", "pvi_finally"}
    /\ pc \in {"pvi_post", "pvi_post_wait", "pvi_raise", "pvi_finally"} => prompt_wav
    /\ (InBody /\ stt_requests = 1) => ~prompt_wav

\* C15's case: process_voice_input has returned from an STT request that gave
\* no transcript.
C15_Witness == pc = "if_not_raw" /\ stt_requests = 1 /\ raw = <<>> /\ ~prompt_wav

----------------------------------------------------------------------------
(* The wake-word tests of lines 191 and 196 over all short transcripts *)

\* The longest run of characters put before and after a word of Cores.
MaxAffix == 2

\* A letter, two non-word characters and the underscore.
AffixChars == {"a", " ", ".", "_"}

RECURSIVE Strings(_, _)
Strings(chars, n) ==
    IF n = 0 THEN { <<>> }
    ELSE Strings(chars, n - 1) \cup
         { <<c>> \o p : c \in chars, p \in {q \in Strings(chars, n - 1) : Len(q) = n - 1} }

\* The wake words in several cases, near misses, and a sentence holding one.
Cores ==
    { <<>>,
      <<"s","t","o","p">>,
      <<"S","t","O","p">>,
      <<"s","t","o">>,
      <<"s","t","o","p","s">>,
      <<"s","t","a","r","t">>,
      <<"S","T","A","R","T">>,
      <<"s","t","a","r">>,
      <<"s","t","o","p"," ","s","t","o","p">>,
      <<"p","l","e","a","s","e"," ","s","t","o","p"," ","n","o","w">> }

\* What raw may hold at line 191: non-empty and stripped (lines 93, 187).
Transcripts ==
    { x \in { a \o c \o b : a \in Strings(AffixChars, MaxAffix), c \in Cores,
                            b \in Strings(AffixChars, MaxAffix) } :
        x # <<>> /\ Strip(x) = x }

\* The program at line 191 with any of these transcripts, listening or paused.
InitClassify ==
    /\ pc = "if_stop"
    /\ exc = "none"
    /\ recognized_user_name = <<>>
    /\ listening_enabled \in BOOLEAN
    /\ raw \in Transcripts
    /\ reply = <<>>
    /\ audio = FALSE
    /\ r = NoResponse
    /\ text = <<>>
    /\ site = "none"
    /\ prompt_wav = FALSE
    /\ speech_wav = FALSE
    /\ active = {}
    /\ calls = <<>>
    /\ stt_requests = 1
    /\ start_state = listening_enabled
    /\ iter_done = FALSE
    /\ played = FALSE

\* Lines 191-203 up to the call they decide on.
NextClassify ==
    \/ IfStop
    \/ IfStart
    \/ IfListening

SpecClassify == InitClassify /\ [][NextClassify]_vars

\* s without its leading and trailing non-word characters.
TrimNonWord(s) ==
    LET keep == {i \in DOMAIN s : IsWord(s[i])}
    IN  IF keep = {} THEN <<>>
        ELSE LET lo == CHOOSE i \in keep : \A j \in keep : i <= j
                 hi == CHOOSE i \in keep : \A j \in keep : j <= i
             IN  SubSeq(s, lo, hi)

\* s trimmed of non-word characters is the word, whatever the case.
ExactWord(s, word) ==
    LET t == TrimNonWord(s)
    IN  /\ Len(t) = Len(word)
        /\ \A i \in DOMAIN t : Lower(t[i]) = word[i]

\* C16: a transcript matches the stop pattern iff, trimmed of its leading and
\* trailing non-word characters, it is "stop" in any case, and likewise the
\* start pattern and "start"; and the loop takes the stop branch while
\* listening, the start branch while paused, for exactly those transcripts.
C16_ExactWakeWord ==
    /\ stop_pattern(raw) <=> ExactWord(raw, <<"s","t","o","p">>)
    /\ start_pattern(raw) <=> ExactWord(raw, <<"s","t","a","r","t">>)
    /\ (listening_enabled /\ pc # "if_stop") =>
          ((pc = "tts_post" /\ site = "stop") <=> ExactWord(raw, <<"s","t","o","p">>))
    /\ (~listening_enabled /\ pc \notin {"if_stop", "if_start"}) =>
          ((pc = "tts_post" /\ site = "start") <=> ExactWord(raw, <<"s","t","a","r","t">>))

\* C16's case: a "stop" in mixed case with non-word characters around it has
\* taken the stop branch.
C16_Witness ==
    /\ pc = "tts_post" /\ site = "stop"
    /\ Len(raw) > 4
    /\ \E i \in DOMAIN raw : raw[i] = "S"

\* C17: the name is what was typed at the prompt, stripped, and never changes;
\* the system message of every chat request begins with sys_msg, is exactly
\* sys_msg when the name is empty, and is sys_msg followed by
\* " The user's name is <name>." when it is not.
C17_SystemInstruction ==
    /\ [](recognized_user_name \in { Strip(n) : n \in NameInputs })
    /\ [][recognized_user_name' = recognized_user_name]_vars
    /\ [](\A i \in DOMAIN ChatCalls :
            LET sys == ChatCalls[i].sys
            IN  /\ Len(sys) >= Len(sys_msg)
                /\ SubSeq(sys, 1, Len(sys_msg)) = sys_msg
                /\ recognized_user_name = <<>> => sys = sys_msg
                /\ recognized_user_name # <<>> =>
                     /\ Len(sys) = Len(sys_msg) + Len(recognized_user_name) + 2
                     /\ sys[Len(sys_msg) + 1] = " The user's name is "
                     /\ SubSeq(sys, Len(sys_msg) + 2, Len(sys) - 1) = recognized_user_name
                     /\ sys[Len(sys)] = ".")

\* C17's case: a named user's chat request, in a turn after an earlier reply.
C17_Witness ==
    /\ pc = "llm_post" /\ ChatCalls # <<>>
    /\ recognized_user_name = <<"A","l">>
    /\ reply # <<>>

\* C18: after text_to_speech has returned speech.wav does not exist; it exists
\* from line 125 until the unlink of line 128, and it is left on disk when
\* the decoding or the playback of line 127 raised.
C18_SpeechRemovedAfterPlayback ==
    /\ pc \in {"tts_play", "tts_play_wait", "tts_unlink"} => speech_wav
    /\ (pc = "crashed" /\ exc \in {"decode", "playback"}) => speech_wav
    /\ (pc = "crashed" /\ exc \notin {"decode", "playback"}) => ~speech_wav
    /\ pc \notin {"tts_play", "tts_play_wait", "tts_unlink", "crashed"} => ~speech_wav
    /\ played => pc \in {"tts_unlink", "tts_return", "while"}

\* C18's case: play raised and speech.wav is still on disk.
C18_Witness == pc = "crashed" /\ exc = "playback" /\ speech_wav

----------------------------------------------------------------------------
(* Progress *)

\* The interpreter keeps running and every external call returns: whenever a
\* step is possible, one is eventually taken.
FairSpec == Spec /\ WF_vars(Next)

\* C19: every iteration that has begun reaches the loop head again unless an
\* uncaught exception ends the process; from the loop head the next call of
\* process_voice_input always follows; so as long as nothing uncaught is
\* raised, a capture is in progress again and again.
C19_NoTerminalState ==
    /\ (pc \notin {"while", "crashed"}) ~> (pc \in {"while", "crashed"})
    /\ (pc = "while") ~> (pc = "pvi_microphone")
    /\ ([](pc # "crashed") => []<>("capture" \in active))

\* C19's case: the next call of process_voice_input after an iteration that
\* paused the session.
C19_Witness == pc = "pvi_microphone" /\ ~listening_enabled /\ stop_pattern(raw)

\* C20: listening_enabled changes only in the step that follows the return of
\* text_to_speech from an acknowledgement, the one call of that iteration, with
\* no request or playback in progress; and that step changes it whether or
\* not the acknowledgement was played.
C20_FlipAfterAcknowledgement ==
    /\ [][ listening_enabled' # listening_enabled =>
             /\ pc = "tts_return"
             /\ active = {}
             /\ calls \in { <<StopAckCall>>, <<StartAckCall>> }
             /\ calls' = calls /\ played' = played ]_vars
    /\ [][ (pc = "tts_return" /\ site \in {"stop", "start"}) =>
             /\ listening_enabled' = ~listening_enabled
             /\ pc' = "while" ]_vars
    /\ [](pc \in {"tts_post", "tts_post_wait", "tts_status", "tts_play",
                  "tts_play_wait", "tts_unlink", "tts_return"} =>
             listening_enabled = start_state)

\* C20's case: the session has become paused although the acknowledgement was
\* not played.
C20_Witness ==
    /\ IterationComplete /\ start_state /\ ~listening_enabled
    /\ calls = <<StopAckCall>>
    /\ ~played

====
